---------------------------- MODULE Spec2Model ----------------------------
(***************************************************************************)
(* Energy-dispatch core of energy_system.py: Battery, PVSystem and         *)
(* EnergySystem (simulate_timestep, simulate).                              *)
(*                                                                         *)
(* Python floats are modelled as exact rationals <<n, d>> in lowest terms  *)
(* with d > 0, so equal quantities are equal values and every comparison   *)
(* of the code (min, max, >, >=) is decided exactly.                        *)
(***************************************************************************)
EXTENDS Integers, Sequences, FiniteSets, TLC

(***************************************************************************)
(* Exact arithmetic                                                        *)
(***************************************************************************)
Abs(x) == IF x < 0 THEN 0 - x ELSE x

RECURSIVE GCD(_, _)
GCD(a, b) == IF b = 0 THEN a ELSE GCD(b, a % b)

Rat(n, d) ==
    LET g == GCD(Abs(n), Abs(d))
        s == IF d < 0 THEN 0 - 1 ELSE 1
    IN  <<(s * n) \div g, (s * d) \div g>>

Num(n) == <<n, 1>>
Zero == <<0, 1>>
One == <<1, 1>>

RAdd(a, b) == Rat(a[1] * b[2] + b[1] * a[2], a[2] * b[2])
RSub(a, b) == Rat(a[1] * b[2] - b[1] * a[2], a[2] * b[2])
RMul(a, b) == Rat(a[1] * b[1], a[2] * b[2])
RDiv(a, b) == Rat(a[1] * b[2], a[2] * b[1])
RLt(a, b) == a[1] * b[2] < b[1] * a[2]
RLe(a, b) == a[1] * b[2] <= b[1] * a[2]
RGt(a, b) == RLt(b, a)
RGe(a, b) == RLe(b, a)
\* Python's min and max return the first argument on a tie
RMin(a, b) == IF RLt(b, a) THEN b ELSE a
RMax(a, b) == IF RGt(b, a) THEN b ELSE a

(***************************************************************************)
(* Bounds and the values the inputs are drawn from                         *)
(***************************************************************************)
MaxCalls == 3
MaxSteps == 2
MaxRows == 2
MaxDirectCalls == 1
MaxTableRows == 4
MaxExtractions == 2
MaxSeries == 2

Capacities == {Num(20)}
Efficiencies == {Rat(1, 2), One}
SelfDischargeRates == {Zero, Rat(1, 4)}
SystemSelfDischargeRates == {Rat(1, 4)}
InitialSocs == {Zero, Rat(1, 2), One}
\* negative, zero, in-range and over-capacity requests
Requests == {Num(0 - 30), Num(0 - 5), Zero, Num(5), Num(30)}
PvPeaks == {Num(10)}
Irradiances == {Zero, Num(250), Num(500), Num(1000)}
Loads == {Zero, Num(5)}
\* the rows of the tables handed to simulate
RunIrradiances == {Zero, Num(1000)}
RunLoads == {Num(5)}
TimestepHours == {One, Num(2)}
\* 0 stands for current_month = None
Months == {0, 1}
ReserveConfigs ==
    { [winter_months |-> {}, winter_min_soc |-> Zero, outage_min_soc |-> Zero],
      [winter_months |-> {12, 1}, winter_min_soc |-> Rat(3, 10), outage_min_soc |-> Rat(1, 2)],
      [winter_months |-> {12, 1}, winter_min_soc |-> Rat(1, 2), outage_min_soc |-> Rat(1, 5)] }

VARIABLES
    battery,      \* the Battery object: capacity_kwh, efficiency, self_discharge_rate, soc, energy_kwh
    config,       \* EnergySystem: pv.peak_power_kw, winter_months, winter_min_soc, outage_min_soc
    results,      \* EnergySystem.results
    call,         \* the last call made: its name, arguments, return value and intermediate values
    calls,        \* number of calls made so far
    run,          \* the last simulate() call: its arguments, the steps it took and the table it returned
    report        \* run_simulation: the results table, its blackout events, and what they were before

vars == <<battery, config, results, call, calls, run, report>>

(***************************************************************************)
(* Battery                                                                 *)
(***************************************************************************)
NewBattery(capacity_kwh, efficiency, self_discharge_rate, initial_soc) ==
    [ capacity_kwh |-> capacity_kwh,
      efficiency |-> efficiency,
      self_discharge_rate |-> self_discharge_rate,
      soc |-> initial_soc,
      energy_kwh |-> RMul(initial_soc, capacity_kwh) ]

\* charge that returns the energy stored, not the energy taken from the source
BatteryChargeReturnsStored(b, energy_kwh) ==
    LET max_charge == RDiv(RSub(b.capacity_kwh, b.energy_kwh), b.efficiency)
        actual_charge == RMin(energy_kwh, max_charge)
    IN  [ battery |-> [b EXCEPT !.energy_kwh = RAdd(@, RMul(actual_charge, b.efficiency))],
          ret |-> RMul(actual_charge, b.efficiency) ]

BatteryCharge(b, energy_kwh) ==
    LET max_charge == RDiv(RSub(b.capacity_kwh, b.energy_kwh), b.efficiency)
        actual_charge == RMin(energy_kwh, max_charge)
    IN  [ battery |-> [b EXCEPT !.energy_kwh = RAdd(@, RMul(actual_charge, b.efficiency))],
          ret |-> actual_charge ]

\* discharge that takes the delivered amount from the store, without the efficiency loss
BatteryDischargeUnscaled(b, energy_kwh) ==
    LET max_discharge == RMul(b.energy_kwh, b.efficiency)
        actual_discharge == RMin(energy_kwh, max_discharge)
    IN  [ battery |-> [b EXCEPT !.energy_kwh = RSub(@, actual_discharge)],
          ret |-> actual_discharge ]

BatteryDischarge(b, energy_kwh) ==
    LET max_discharge == RMul(b.energy_kwh, b.efficiency)
        actual_discharge == RMin(energy_kwh, max_discharge)
    IN  [ battery |-> [b EXCEPT !.energy_kwh = RSub(@, RDiv(actual_discharge, b.efficiency))],
          ret |-> actual_discharge ]

\* self-discharge that loses the rate once per call, whatever the length of the step
BatteryApplySelfDischargePerCall(b, timestep_hours) ==
    [b EXCEPT !.energy_kwh = RMul(@, RSub(One, b.self_discharge_rate))]

BatteryApplySelfDischarge(b, timestep_hours) ==
    [b EXCEPT !.energy_kwh = RMul(@, RSub(One, RMul(b.self_discharge_rate, timestep_hours)))]

BatteryGetSoc(b) ==
    LET soc == RDiv(b.energy_kwh, b.capacity_kwh)
    IN  [ battery |-> [b EXCEPT !.soc = soc], ret |-> soc ]

(***************************************************************************)
(* PVSystem                                                                *)
(***************************************************************************)
GeneratePower(peak_power_kw, irradiation_w_m2) ==
    RMul(RDiv(irradiation_w_m2, Num(1000)), peak_power_kw)

(***************************************************************************)
(* EnergySystem                                                            *)
(***************************************************************************)
NewEnergySystem(pv_peak_kw, capacity_kwh, efficiency, self_discharge, reserve) ==
    [ battery |-> NewBattery(capacity_kwh, efficiency, self_discharge, Rat(1, 2)),
      config |-> [ peak_power_kw |-> pv_peak_kw,
                   reserve |-> [ winter_months |-> reserve.winter_months,
                                 winter_min_soc |-> reserve.winter_min_soc,
                                 outage_min_soc |-> reserve.outage_min_soc ] ],
      results |-> <<>> ]

\* reserve policy that tests the season before the grid: the winter floor also in an outage
EffectiveMinSocWinterFirst(reserve, grid_stable, current_month) ==
    LET is_winter == IF current_month # 0 THEN current_month \in reserve.winter_months
                     ELSE FALSE
    IN  IF is_winter THEN reserve.winter_min_soc
        ELSE IF ~grid_stable THEN reserve.outage_min_soc ELSE Zero

\* The reserve policy of simulate_timestep: the minimum state of charge of this step
EffectiveMinSoc(reserve, grid_stable, current_month) ==
    LET is_winter == IF current_month # 0 THEN current_month \in reserve.winter_months
                     ELSE FALSE
    IN  IF ~grid_stable THEN reserve.outage_min_soc
        ELSE IF is_winter THEN reserve.winter_min_soc ELSE Zero

\* step 3 that leaves the battery alone, so that the grid is asked first
DischargeForLoadSkipped(b, remaining_load, min_battery_energy) ==
    [ battery |-> b, ret |-> Zero ]

\* step 3 that serves the load from the battery without looking at the reserve
DischargeForLoadIgnoringReserve(b, remaining_load, min_battery_energy) ==
    BatteryDischarge(b, remaining_load)

\* Step 3 of simulate_timestep: battery -> load, from a battery b, for the load left after PV
DischargeForLoad(b, remaining_load, min_battery_energy) ==
    LET available_battery_energy == RMax(Zero, RSub(b.energy_kwh, min_battery_energy))
        max_discharge == RMul(available_battery_energy, b.efficiency)
        requested_discharge == remaining_load
    IN  IF RGe(max_discharge, requested_discharge)
        THEN BatteryDischarge(b, requested_discharge)
        ELSE BatteryDischarge(b, RDiv(max_discharge, b.efficiency))

\* step 1 that forgets to take the energy fed to the load off the PV energy
FeedLoadFromPvKeepsPv(pv_energy_kwh, load_energy_kwh) ==
    LET pv_to_load == RMin(pv_energy_kwh, load_energy_kwh)
    IN  [ pv_to_load |-> pv_to_load,
          remaining_load |-> RSub(load_energy_kwh, pv_to_load),
          remaining_pv |-> pv_energy_kwh ]

\* step 1 that hands all PV energy to the load, whatever the load
FeedLoadFromPvUnbounded(pv_energy_kwh, load_energy_kwh) ==
    [ pv_to_load |-> pv_energy_kwh,
      remaining_load |-> RSub(load_energy_kwh, pv_energy_kwh),
      remaining_pv |-> RSub(pv_energy_kwh, pv_energy_kwh) ]

\* Step 1 of simulate_timestep: PV -> load
FeedLoadFromPv(pv_energy_kwh, load_energy_kwh) ==
    LET pv_to_load == RMin(pv_energy_kwh, load_energy_kwh)
    IN  [ pv_to_load |-> pv_to_load,
          remaining_load |-> RSub(load_energy_kwh, pv_to_load),
          remaining_pv |-> RSub(pv_energy_kwh, pv_to_load) ]

\* step 2 left out, so that surplus PV goes to the grid first
ChargePvExcessSkipped(b, remaining_pv) ==
    [ battery |-> b, ret |-> Zero ]

\* Step 2 of simulate_timestep: PV excess -> battery
ChargePvExcess(b, remaining_pv) ==
    IF RGt(remaining_pv, Zero) THEN BatteryCharge(b, remaining_pv)
    ELSE [ battery |-> b, ret |-> Zero ]

\* step 5 that exports whether the grid is up or not
ExportToGridAlways(remaining_pv, grid_stable) ==
    IF RGt(remaining_pv, Zero)
    THEN [ pv_to_grid |-> remaining_pv, remaining_pv |-> Zero ]
    ELSE [ pv_to_grid |-> Zero, remaining_pv |-> remaining_pv ]

\* Step 5 of simulate_timestep: PV excess -> grid
ExportToGrid(remaining_pv, grid_stable) ==
    IF RGt(remaining_pv, Zero) /\ grid_stable
    THEN [ pv_to_grid |-> remaining_pv, remaining_pv |-> Zero ]
    ELSE [ pv_to_grid |-> Zero, remaining_pv |-> remaining_pv ]

\* step 4 that imports but leaves remaining_load as it was
ImportFromGridKeepsLoad(remaining_load, grid_stable) ==
    IF RGt(remaining_load, Zero) /\ grid_stable
    THEN [ grid_to_load |-> remaining_load, remaining_load |-> remaining_load ]
    ELSE [ grid_to_load |-> Zero, remaining_load |-> remaining_load ]

\* Step 4 of simulate_timestep: grid -> load
ImportFromGrid(remaining_load, grid_stable) ==
    IF RGt(remaining_load, Zero) /\ grid_stable
    THEN [ grid_to_load |-> remaining_load, remaining_load |-> Zero ]
    ELSE [ grid_to_load |-> Zero, remaining_load |-> remaining_load ]

\* grid metrics with the sign of net_grid turned round
GridMetricsNetExport(grid_to_load, pv_to_grid, battery_to_grid) ==
    [ grid_import |-> grid_to_load,
      grid_export |-> RAdd(pv_to_grid, battery_to_grid),
      net_grid |-> RSub(RAdd(pv_to_grid, battery_to_grid), grid_to_load) ]

\* The grid metrics of simulate_timestep
GridMetrics(grid_to_load, pv_to_grid, battery_to_grid) ==
    LET grid_import == grid_to_load
        grid_export == RAdd(pv_to_grid, battery_to_grid)
    IN  [ grid_import |-> grid_import,
          grid_export |-> grid_export,
          net_grid |-> RSub(grid_import, grid_export) ]

\* simulate_timestep: the battery after the step, the result row, and the values the step
\* went through (steps: what happened between the five steps of the merit order)
Timestep(b, cfg, irradiation_w_m2, load_kw, grid_stable, timestep_hours, current_month) ==
    LET pv_power_kw == GeneratePower(cfg.peak_power_kw, irradiation_w_m2)
        pv_energy_kwh == RMul(pv_power_kw, timestep_hours)
        load_energy_kwh == RMul(load_kw, timestep_hours)
        effective_min_soc == EffectiveMinSoc(cfg.reserve, grid_stable, current_month)
        min_battery_energy == RMul(effective_min_soc, b.capacity_kwh)
        \* Step 1
        fed == FeedLoadFromPv(pv_energy_kwh, load_energy_kwh)
        pv_to_load == fed.pv_to_load
        remaining_load1 == fed.remaining_load
        remaining_pv1 == fed.remaining_pv
        \* Step 2
        charges == RGt(remaining_pv1, Zero)
        c == ChargePvExcess(b, remaining_pv1)
        pv_to_battery == c.ret
        remaining_pv2 == RSub(remaining_pv1, pv_to_battery)
        \* Step 3
        discharges == RGt(remaining_load1, Zero)
        d == IF discharges THEN DischargeForLoad(c.battery, remaining_load1, min_battery_energy)
             ELSE [ battery |-> c.battery, ret |-> Zero ]
        battery_to_load == d.ret
        remaining_load3 == RSub(remaining_load1, battery_to_load)
        \* Step 4
        imported == ImportFromGrid(remaining_load3, grid_stable)
        grid_to_load == imported.grid_to_load
        remaining_load4 == imported.remaining_load
        \* Step 5
        exported == ExportToGrid(remaining_pv2, grid_stable)
        pv_to_grid == exported.pv_to_grid
        battery_to_grid == Zero
        \* self-discharge, metrics
        b5 == BatteryApplySelfDischarge(d.battery, timestep_hours)
        metrics == GridMetrics(grid_to_load, pv_to_grid, battery_to_grid)
        grid_import == metrics.grid_import
        grid_export == metrics.grid_export
        net_grid == metrics.net_grid
        local_supply == RAdd(pv_to_load, battery_to_load)
        self_sufficiency == IF RGt(load_energy_kwh, Zero)
                            THEN RDiv(local_supply, load_energy_kwh) ELSE One
        g == BatteryGetSoc(b5)
    IN  [ battery |-> g.battery,
          result |-> [ pv_generation_kwh |-> pv_energy_kwh,
                       load_kwh |-> load_energy_kwh,
                       battery_soc |-> g.ret,
                       battery_energy_kwh |-> g.battery.energy_kwh,
                       pv_to_load |-> pv_to_load,
                       pv_to_battery |-> pv_to_battery,
                       pv_to_grid |-> pv_to_grid,
                       battery_to_load |-> battery_to_load,
                       grid_to_load |-> grid_to_load,
                       grid_import |-> grid_import,
                       grid_export |-> grid_export,
                       net_grid |-> net_grid,
                       self_sufficiency |-> self_sufficiency,
                       grid_stable |-> grid_stable,
                       unmet_load |-> remaining_load4 ],
          steps |-> [ min_battery_energy |-> min_battery_energy,
                      energy_at_start |-> b.energy_kwh,
                      charges |-> charges,
                      energy_after_charge |-> c.battery.energy_kwh,
                      remaining_load |-> remaining_load1,
                      remaining_pv |-> remaining_pv1,
                      discharges |-> discharges,
                      energy_after_discharge |-> d.battery.energy_kwh,
                      remaining_pv_at_end |-> exported.remaining_pv,
                      energy_after_self_discharge |-> b5.energy_kwh ] ]

\* datetime arithmetic of simulate: a date is a number of whole hours since 2024-01-01 00:00
\* (the default start_date); the month of start_date + timedelta(hours = idx * timestep_hours)
HoursInDay == 24
DaysInYear2024 == 366
DaysBeforeMonth2024 == <<0, 31, 60, 91, 121, 152, 182, 213, 244, 274, 305, 335, 366>>
DaysBeforeMonth == <<0, 31, 59, 90, 120, 151, 181, 212, 243, 273, 304, 334, 365>>

MonthOfDay(day, table) ==
    CHOOSE m \in 1..12 : table[m] <= day /\ day < table[m + 1]

\* floor of a non-negative rational
Floor(a) == a[1] \div a[2]

CurrentMonth(start_date, idx, timestep_hours) ==
    LET hour == start_date + Floor(RMul(Num(idx), timestep_hours))
        day == hour \div HoursInDay
    IN  IF day < DaysInYear2024 THEN MonthOfDay(day, DaysBeforeMonth2024)
        ELSE MonthOfDay((day - DaysInYear2024) % 365, DaysBeforeMonth)

\* The loop of simulate over the rows of data from position i (1-based; idx = i - 1 is the
\* label of the row in a RangeIndex), from battery b with self.results = acc
RECURSIVE SimulateRows(_, _, _, _, _, _, _, _)
SimulateRows(b, cfg, data, timestep_hours, start_date, i, acc, trace) ==
    IF i > Len(data)
    THEN [ battery |-> b, results |-> acc, trace |-> trace ]
    ELSE LET row == data[i]
             idx == i - 1
             current_month == CurrentMonth(start_date, idx, timestep_hours)
             t == Timestep(b, cfg, row.irradiation_w_m2, row.load_kw, row.grid_stable,
                           timestep_hours, current_month)
         IN  SimulateRows(t.battery, cfg, data, timestep_hours, start_date, i + 1,
                          Append(acc, t.result),
                          Append(trace, [ idx |-> idx, current_month |-> current_month,
                                          steps |-> t.steps ]))

\* a loop that runs every row on the battery as it was before the first row
RECURSIVE SimulateRowsFromSameBattery(_, _, _, _, _, _, _, _)
SimulateRowsFromSameBattery(b, cfg, data, timestep_hours, start_date, i, acc, trace) ==
    IF i > Len(data)
    THEN [ battery |-> b, results |-> acc, trace |-> trace ]
    ELSE LET row == data[i]
             idx == i - 1
             current_month == CurrentMonth(start_date, idx, timestep_hours)
             t == Timestep(b, cfg, row.irradiation_w_m2, row.load_kw, row.grid_stable,
                           timestep_hours, current_month)
         IN  SimulateRowsFromSameBattery(b, cfg, data, timestep_hours, start_date, i + 1,
                                         Append(acc, t.result),
                                         Append(trace, [ idx |-> idx,
                                                         current_month |-> current_month,
                                                         steps |-> t.steps ]))

\* simulate whose rows do not hand the battery on to the next row
SimulationFromSameBattery(b, cfg, self_results, data, timestep_hours, start_date) ==
    SimulateRowsFromSameBattery(b, cfg, data, timestep_hours, start_date, 1, <<>>, <<>>)

\* simulate that first puts the battery back to its initial state of charge
SimulationFromInitialSoc(b, cfg, self_results, data, timestep_hours, start_date) ==
    SimulateRows(NewBattery(b.capacity_kwh, b.efficiency, b.self_discharge_rate, Rat(1, 2)),
                 cfg, data, timestep_hours, start_date, 1, <<>>, <<>>)

\* simulate that appends to the results already in self.results
SimulationWithoutReset(b, cfg, self_results, data, timestep_hours, start_date) ==
    SimulateRows(b, cfg, data, timestep_hours, start_date, 1, self_results, <<>>)

\* simulate: self.results = [], then the loop over data.iterrows()
Simulation(b, cfg, self_results, data, timestep_hours, start_date) ==
    SimulateRows(b, cfg, data, timestep_hours, start_date, 1, <<>>, <<>>)

(***************************************************************************)
(* Blackout events of run_simulation (simulate.py)                         *)
(***************************************************************************)
\* an annotation that also clamps unmet_load at zero
AnnotateBlackoutClamping(results_table) ==
    [ i \in 1..Len(results_table) |->
        LET row == results_table[i]
        IN  [ f \in DOMAIN row \cup {"blackout"} |->
                IF f = "blackout" THEN RGt(row.unmet_load, Zero)
                ELSE IF f = "unmet_load" THEN RMax(Zero, row.unmet_load)
                ELSE row[f] ] ]

\* results['blackout'] = results['unmet_load'] > 0: the column is added, or overwritten
AnnotateBlackout(results_table) ==
    [ i \in 1..Len(results_table) |->
        LET row == results_table[i]
        IN  [ f \in DOMAIN row \cup {"blackout"} |->
                IF f = "blackout" THEN RGt(row.unmet_load, Zero) ELSE row[f] ] ]

\* event_slice[column].sum() over the rows lo..hi (positions in the sequence)
RECURSIVE SliceSum(_, _, _, _)
SliceSum(results_table, column, lo, hi) ==
    IF lo > hi THEN Zero
    ELSE RAdd(results_table[lo][column], SliceSum(results_table, column, lo + 1, hi))

\* (event_slice['battery_soc'] * 100).min()
SliceMinSocPct(results_table, lo, hi) ==
    CHOOSE m \in { RMul(results_table[i].battery_soc, Num(100)) : i \in lo..hi } :
        \A j \in lo..hi : RLe(m, RMul(results_table[j].battery_soc, Num(100)))

\* an event record built from the slice iloc[event_start:event_end], without its last row
BlackoutEventExclusiveEnd(results_table, sim_start_date, event_start, event_end, event_id) ==
    LET lo == event_start + 1
        hi == event_end
        n == hi - lo + 1
    IN  [ event_id |-> event_id,
          start_index |-> event_start,
          end_index |-> event_end,
          start_time |-> sim_start_date + event_start,
          end_time |-> sim_start_date + event_end,
          duration_hours |-> event_end - event_start,
          unserved_energy_kwh |-> SliceSum(results_table, "unmet_load", lo, hi),
          min_battery_soc_pct |-> IF n > 0 THEN SliceMinSocPct(results_table, lo, hi) ELSE Zero,
          avg_battery_soc_pct |->
              IF n > 0
              THEN RDiv(RMul(SliceSum(results_table, "battery_soc", lo, hi), Num(100)), Num(n))
              ELSE Zero,
          grid_down_fraction |->
              IF n > 0 THEN Rat(Cardinality({ i \in lo..hi : ~results_table[i].grid_stable }), n)
              ELSE Zero ]

\* The record appended for the event of the rows event_start..event_end (indices from 0);
\* times are hours since 2024-01-01 00:00, like sim_start_date
BlackoutEvent(results_table, sim_start_date, event_start, event_end, event_id) ==
    LET lo == event_start + 1
        hi == event_end + 1
        duration == event_end - event_start + 1
        n == hi - lo + 1
    IN  [ event_id |-> event_id,
          start_index |-> event_start,
          end_index |-> event_end,
          start_time |-> sim_start_date + event_start,
          end_time |-> sim_start_date + event_end,
          duration_hours |-> duration,
          unserved_energy_kwh |-> SliceSum(results_table, "unmet_load", lo, hi),
          min_battery_soc_pct |-> SliceMinSocPct(results_table, lo, hi),
          avg_battery_soc_pct |->
              RDiv(RMul(SliceSum(results_table, "battery_soc", lo, hi), Num(100)), Num(n)),
          grid_down_fraction |->
              Rat(Cardinality({ i \in lo..hi : ~results_table[i].grid_stable }), n) ]

\* The loop over results['blackout'], from index i on; event_start = None is -1
RECURSIVE ScanBlackouts(_, _, _, _, _, _)
ScanBlackouts(results_table, sim_start_date, i, in_event, event_start, blackout_events) ==
    IF i >= Len(results_table)
    THEN [ in_event |-> in_event, event_start |-> event_start,
           blackout_events |-> blackout_events ]
    ELSE LET is_blackout == results_table[i + 1].blackout
         IN  IF is_blackout /\ ~in_event
             THEN ScanBlackouts(results_table, sim_start_date, i + 1, TRUE, i, blackout_events)
             ELSE IF ~is_blackout /\ in_event
             THEN ScanBlackouts(results_table, sim_start_date, i + 1, FALSE, 0 - 1,
                      Append(blackout_events,
                             BlackoutEvent(results_table, sim_start_date, event_start, i - 1,
                                           Len(blackout_events) + 1)))
             ELSE ScanBlackouts(results_table, sim_start_date, i + 1, in_event, event_start,
                                blackout_events)

\* the end of the scan that forgets an event still open at the last row
CloseOpenEventDropped(results_table, sim_start_date, scan) ==
    scan.blackout_events

\* "If still in event at the end": the open event ends at the last row
CloseOpenEvent(results_table, sim_start_date, scan) ==
    IF scan.in_event /\ scan.event_start # 0 - 1
    THEN Append(scan.blackout_events,
                BlackoutEvent(results_table, sim_start_date, scan.event_start,
                              Len(results_table) - 1, Len(scan.blackout_events) + 1))
    ELSE scan.blackout_events

\* Annotation and detection together: the table and the events run_simulation goes on with
DetectBlackouts(results_table, sim_start_date) ==
    LET annotated == AnnotateBlackout(results_table)
        scan == ScanBlackouts(annotated, sim_start_date, 0, FALSE, 0 - 1, <<>>)
    IN  [ results |-> annotated,
          blackout_events |-> CloseOpenEvent(annotated, sim_start_date, scan) ]

NoReport == [ results |-> <<>>, blackout_events |-> <<>>, extractions |-> 0,
              before |-> <<>>, previous |-> <<>> ]

NoRun == [ called |-> FALSE, rows |-> 0, data |-> <<>>, timestep_hours |-> One, start_date |-> 0,
           results_before |-> <<>>, trace |-> <<>>, returned |-> <<>> ]
NoCall == [ op |-> "init" ]
DefaultReserve == [ winter_months |-> {}, winter_min_soc |-> Zero, outage_min_soc |-> Zero ]

(***************************************************************************)
(* A Battery on its own, driven by direct calls (test_battery)             *)
(***************************************************************************)
InitBattery ==
    /\ \E c \in Capacities, e \in Efficiencies, r \in SelfDischargeRates, s \in InitialSocs :
           battery = NewBattery(c, e, r, s)
    /\ config = [ peak_power_kw |-> Num(10), reserve |-> DefaultReserve ]
    /\ results = <<>>
    /\ call = NoCall
    /\ calls = 0
    /\ run = NoRun
    /\ report = NoReport

Charge(x) ==
    /\ calls < MaxCalls
    /\ \E c \in { BatteryCharge(battery, x) } :
           /\ battery' = c.battery
           /\ call' = [ op |-> "charge", requested |-> x, before |-> battery.energy_kwh,
                        ret |-> c.ret ]
    /\ calls' = calls + 1
    /\ UNCHANGED <<config, results, run, report>>

Discharge(x) ==
    /\ calls < MaxCalls
    /\ \E d \in { BatteryDischarge(battery, x) } :
           /\ battery' = d.battery
           /\ call' = [ op |-> "discharge", requested |-> x, before |-> battery.energy_kwh,
                        ret |-> d.ret ]
    /\ calls' = calls + 1
    /\ UNCHANGED <<config, results, run, report>>

ApplySelfDischarge(h) ==
    /\ calls < MaxCalls
    /\ battery' = BatteryApplySelfDischarge(battery, h)
    /\ call' = [ op |-> "apply_self_discharge", requested |-> h, before |-> battery.energy_kwh,
                 ret |-> Zero ]
    /\ calls' = calls + 1
    /\ UNCHANGED <<config, results, run, report>>

GetSoc ==
    /\ calls < MaxCalls
    /\ \E g \in { BatteryGetSoc(battery) } :
           /\ battery' = g.battery
           /\ call' = [ op |-> "get_soc", requested |-> Zero, before |-> battery.energy_kwh,
                        ret |-> g.ret ]
    /\ calls' = calls + 1
    /\ UNCHANGED <<config, results, run, report>>

NextBattery ==
    \/ \E x \in Requests : Charge(x)
    \/ \E x \in Requests : Discharge(x)
    \/ \E h \in TimestepHours : ApplySelfDischarge(h)
    \/ GetSoc

SpecBattery == InitBattery /\ [][NextBattery]_vars

(***************************************************************************)
(* An EnergySystem driven by direct simulate_timestep calls                *)
(* (test_energy_flow_priority)                                             *)
(***************************************************************************)
InitSystem ==
    /\ \E p \in PvPeaks, c \in Capacities, e \in Efficiencies, r \in SystemSelfDischargeRates,
          rc \in ReserveConfigs :
           LET s == NewEnergySystem(p, c, e, r, rc)
           IN  /\ battery = s.battery
               /\ config = s.config
               /\ results = s.results
    /\ call = NoCall
    /\ calls = 0
    /\ run = NoRun
    /\ report = NoReport

SimulateTimestep(irradiation_w_m2, load_kw, grid_stable, timestep_hours, current_month) ==
    /\ calls < MaxSteps
    /\ \E t \in { Timestep(battery, config, irradiation_w_m2, load_kw, grid_stable,
                           timestep_hours, current_month) } :
           /\ battery' = t.battery
           /\ results' = Append(results, t.result)
           /\ call' = [ op |-> "simulate_timestep",
                        irradiation_w_m2 |-> irradiation_w_m2, load_kw |-> load_kw,
                        grid_stable |-> grid_stable, timestep_hours |-> timestep_hours,
                        current_month |-> current_month,
                        ret |-> t.result, steps |-> t.steps ]
    /\ calls' = calls + 1
    /\ UNCHANGED <<config, run, report>>

NextStep ==
    \E i \in Irradiances, l \in Loads, g \in BOOLEAN, h \in TimestepHours, m \in Months :
        SimulateTimestep(i, l, g, h, m)

SpecStep == InitSystem /\ [][NextStep]_vars

(***************************************************************************)
(* An EnergySystem running simulate(), possibly after direct               *)
(* simulate_timestep calls or an earlier simulate() (simulate.py,          *)
(* examples.py, test_energy_system)                                        *)
(***************************************************************************)
Rows == [ irradiation_w_m2 : RunIrradiances, load_kw : RunLoads, grid_stable : BOOLEAN ]

Tables == UNION { [1..n -> Rows] : n \in 0..MaxRows }

\* start_date = None is replaced by datetime(2024, 1, 1); 742 is 2024-01-31 22:00
RunArguments == { [ timestep_hours |-> One, start_date |-> 0 ],
                  [ timestep_hours |-> Num(2), start_date |-> 742 ] }

Simulate(data, timestep_hours, start_date) ==
    /\ run.rows + Len(data) <= MaxRows
    /\ \E r \in { Simulation(battery, config, results, data, timestep_hours, start_date) } :
           /\ battery' = r.battery
           /\ results' = r.results
           /\ run' = [ called |-> TRUE, rows |-> run.rows + Len(data), data |-> data,
                       timestep_hours |-> timestep_hours, start_date |-> start_date,
                       results_before |-> results, trace |-> r.trace,
                       returned |-> r.results ]
    /\ call' = [ op |-> "simulate" ]
    /\ UNCHANGED <<config, calls, report>>

Next ==
    \/ \E row \in Rows :
           /\ ~run.called
           /\ calls < MaxDirectCalls
           /\ SimulateTimestep(row.irradiation_w_m2, row.load_kw, row.grid_stable, One, 0)
    \/ \E data \in Tables, a \in RunArguments :
           Simulate(data, a.timestep_hours, a.start_date)

Spec == InitSystem /\ [][Next]_vars

(***************************************************************************)
(* A Battery driven by direct calls with requests >= 0                     *)
(***************************************************************************)
NonNegativeRequests == { x \in Requests : RGe(x, Zero) }

NextBatteryUse ==
    \/ \E x \in NonNegativeRequests : Charge(x)
    \/ \E x \in NonNegativeRequests : Discharge(x)
    \/ \E h \in TimestepHours : ApplySelfDischarge(h)
    \/ GetSoc

SpecBatteryUse == InitBattery /\ [][NextBatteryUse]_vars

(***************************************************************************)
(* Blackout detection on completed result tables                           *)
(***************************************************************************)
\* The columns the detection reads (and load_kwh, which it does not). unmet_load is positive
\* only with the grid down (step 4), and can be negative (step 3 with efficiency < 1).
BlackoutRows ==
    { [ load_kwh |-> Num(5), unmet_load |-> Zero, battery_soc |-> Rat(1, 2), grid_stable |-> TRUE ],
      [ load_kwh |-> Num(5), unmet_load |-> Num(5), battery_soc |-> Zero, grid_stable |-> FALSE ],
      [ load_kwh |-> Num(5), unmet_load |-> Num(3), battery_soc |-> Rat(1, 4), grid_stable |-> FALSE ],
      [ load_kwh |-> Num(5), unmet_load |-> Num(0 - 2), battery_soc |-> Rat(1, 10),
        grid_stable |-> TRUE ] }

ServedRow == [ load_kwh |-> Num(5), unmet_load |-> Zero, battery_soc |-> Rat(1, 2),
               grid_stable |-> TRUE ]
UnservedRow == [ load_kwh |-> Num(5), unmet_load |-> Num(5), battery_soc |-> Zero,
                 grid_stable |-> FALSE ]

\* 21 rows with unmet load at the indices 5, 6, 7 and 20 only
ExampleTable ==
    [ i \in 1..21 |-> IF i - 1 \in {5, 6, 7, 20} THEN UnservedRow ELSE ServedRow ]

ResultTables ==
    UNION { [1..n -> BlackoutRows] : n \in 0..MaxTableRows } \cup {ExampleTable}

InitBlackout ==
    /\ LET s == NewEnergySystem(Num(10), Num(20), One, Rat(1, 4), DefaultReserve)
       IN  /\ battery = s.battery
           /\ config = s.config
           /\ results = s.results
    /\ call = NoCall
    /\ calls = 0
    /\ run = NoRun
    /\ \E t \in ResultTables : report = [ NoReport EXCEPT !.results = t ]

\* The blackout block of run_simulation, on the table it is handed
ExtractBlackoutEvents ==
    /\ report.extractions < MaxExtractions
    /\ \E d \in { DetectBlackouts(report.results, 0) } :
           report' = [ results |-> d.results,
                       blackout_events |-> d.blackout_events,
                       extractions |-> report.extractions + 1,
                       before |-> report.results,
                       previous |-> report.blackout_events ]
    /\ call' = [ op |-> "extract_blackout_events" ]
    /\ UNCHANGED <<battery, config, results, calls, run>>

NextBlackout == ExtractBlackoutEvents

SpecBlackout == InitBlackout /\ [][NextBlackout]_vars

(***************************************************************************)
(* Systems built from any constructor arguments                            *)
(***************************************************************************)
\* Constructor arguments outside the documented ranges, one argument at a time, and one
\* set of arguments inside them; none makes the code divide by zero.
AnyConfigurations ==
    { [ capacity_kwh |-> Num(20), efficiency |-> One, self_discharge |-> Rat(1, 4),
        reserve |-> DefaultReserve ],
      [ capacity_kwh |-> Num(0 - 20), efficiency |-> One, self_discharge |-> Rat(1, 4),
        reserve |-> DefaultReserve ],
      [ capacity_kwh |-> Num(20), efficiency |-> Num(2), self_discharge |-> Rat(1, 4),
        reserve |-> DefaultReserve ],
      [ capacity_kwh |-> Num(20), efficiency |-> One, self_discharge |-> Rat(0 - 1, 4),
        reserve |-> DefaultReserve ],
      [ capacity_kwh |-> Num(20), efficiency |-> One, self_discharge |-> Rat(1, 4),
        reserve |-> [ winter_months |-> {12, 1}, winter_min_soc |-> Num(2),
                      outage_min_soc |-> Zero ] ],
      [ capacity_kwh |-> Num(20), efficiency |-> One, self_discharge |-> Rat(1, 4),
        reserve |-> [ winter_months |-> {}, winter_min_soc |-> Zero,
                      outage_min_soc |-> Num(0 - 1) ] ] }

InitAnySystem ==
    /\ \E p \in PvPeaks, a \in AnyConfigurations :
           LET s == NewEnergySystem(p, a.capacity_kwh, a.efficiency, a.self_discharge, a.reserve)
           IN  /\ battery = s.battery
               /\ config = s.config
               /\ results = s.results
    /\ call = NoCall
    /\ calls = 0
    /\ run = NoRun
    /\ report = NoReport

NextAnySystem ==
    \E i \in Irradiances, l \in Loads, g \in BOOLEAN, h \in TimestepHours, m \in Months :
        SimulateTimestep(i, l, g, h, m)

SpecAnySystem == InitAnySystem /\ [][NextAnySystem]_vars

(***************************************************************************)
(* simulate() on tables with negative irradiation or load                  *)
(***************************************************************************)
SignedRows ==
    [ irradiation_w_m2 : {Num(0 - 1000), Num(1000)}, load_kw : {Num(0 - 5), Num(5)},
      grid_stable : BOOLEAN ]

SignedTables == UNION { [1..n -> SignedRows] : n \in 0..MaxRows }

NextSigned ==
    \E data \in SignedTables, a \in RunArguments :
        Simulate(data, a.timestep_hours, a.start_date)

SpecSigned == InitSystem /\ [][NextSigned]_vars

(***************************************************************************)
(* run_simulation in values-only mode, with the default scale factors, no  *)
(* start index and no date range                                            *)
(***************************************************************************)
MinLength(irradiation, load, grid) ==
    LET a == Len(irradiation)
        b == Len(load)
        c == Len(grid)
        ab == IF b < a THEN b ELSE a
    IN  IF c < ab THEN c ELSE ab

LastEntries(series, n) == SubSeq(series, Len(series) - n + 1, Len(series))

\* a trimming that keeps the last min_length entries of each series
EnsureSameLengthFromEnd(irradiation, load, grid) ==
    LET min_length == MinLength(irradiation, load, grid)
    IN  IF Len(irradiation) # Len(load) \/ Len(irradiation) # Len(grid)
        THEN [ irradiation |-> LastEntries(irradiation, min_length),
               load |-> LastEntries(load, min_length),
               grid |-> LastEntries(grid, min_length),
               warned |-> TRUE ]
        ELSE [ irradiation |-> irradiation, load |-> load, grid |-> grid, warned |-> FALSE ]

\* "Ensure all arrays have the same length": warn and trim all three to the minimum length
EnsureSameLength(irradiation, load, grid) ==
    LET min_length == MinLength(irradiation, load, grid)
    IN  IF Len(irradiation) # Len(load) \/ Len(irradiation) # Len(grid)
        THEN [ irradiation |-> SubSeq(irradiation, 1, min_length),
               load |-> SubSeq(load, 1, min_length),
               grid |-> SubSeq(grid, 1, min_length),
               warned |-> TRUE ]
        ELSE [ irradiation |-> irradiation, load |-> load, grid |-> grid, warned |-> FALSE ]

\* data = pd.DataFrame({'irradiation_w_m2': ..., 'load_kw': ..., 'grid_stable': ...})
InputData(irradiation, load, grid) ==
    [ i \in 1..Len(irradiation) |->
        [ irradiation_w_m2 |-> irradiation[i], load_kw |-> load[i], grid_stable |-> grid[i] ] ]

SeriesOf(values) == UNION { [1..n -> values] : n \in 0..MaxSeries }

\* run_simulation on three series: trim, simulate on the system just built, detect blackouts
RunSimulation(irradiation, load, grid, timestep_hours) ==
    /\ ~run.called
    /\ calls = 0
    /\ \E e \in { EnsureSameLength(irradiation, load, grid) } :
       \E r \in { Simulation(battery, config, results,
                             InputData(e.irradiation, e.load, e.grid), timestep_hours, 0) } :
       \E d \in { DetectBlackouts(r.results, 0) } :
           /\ battery' = r.battery
           /\ results' = r.results
           /\ run' = [ called |-> TRUE, rows |-> Len(e.irradiation),
                       data |-> InputData(e.irradiation, e.load, e.grid),
                       timestep_hours |-> timestep_hours, start_date |-> 0,
                       results_before |-> results, trace |-> r.trace,
                       returned |-> r.results ]
           /\ report' = [ results |-> d.results,
                          blackout_events |-> d.blackout_events,
                          extractions |-> 1,
                          before |-> r.results,
                          previous |-> <<>> ]
           /\ call' = [ op |-> "run_simulation", irradiation |-> irradiation, load |-> load,
                        grid |-> grid, warned |-> e.warned ]
    /\ UNCHANGED <<config, calls>>

NextRun ==
    \E irradiation \in SeriesOf(RunIrradiances), load \in SeriesOf(RunLoads),
       grid \in SeriesOf(BOOLEAN), h \in TimestepHours :
        RunSimulation(irradiation, load, grid, h)

SpecRun == InitSystem /\ [][NextRun]_vars

(***************************************************************************)
(* Properties                                                              *)
(***************************************************************************)
InUnitInterval(x) == RLe(Zero, x) /\ RLe(x, One)

\* C1: after every charge, discharge and apply_self_discharge call, whatever the request,
\* 0 <= energy_kwh <= capacity_kwh, and every reported battery_soc lies in [0, 1].
C1_BatteryBounds ==
    /\ RLe(Zero, battery.energy_kwh)
    /\ RLe(battery.energy_kwh, battery.capacity_kwh)
    /\ \A i \in 1..Len(results) : InUnitInterval(results[i].battery_soc)

\* C2: in every result row, pv_to_load + battery_to_load + grid_to_load + unmet_load
\* equals load_kwh.
C2_EnergyConservation ==
    \A i \in 1..Len(results) :
        LET r == results[i]
        IN  RAdd(RAdd(RAdd(r.pv_to_load, r.battery_to_load), r.grid_to_load), r.unmet_load)
            = r.load_kwh

\* a step in which PV, the battery and the grid each served part of the load
C2_Witness ==
    /\ call.op = "simulate_timestep"
    /\ RGt(call.ret.pv_to_load, Zero)
    /\ RGt(call.ret.battery_to_load, Zero)
    /\ RGt(call.ret.grid_to_load, Zero)
    /\ Len(results) = 2

\* C3: in every result row 0 <= self_sufficiency <= 1, and self_sufficiency = 1 when
\* load_kwh = 0.
C3_SelfSufficiencyBounds ==
    \A i \in 1..Len(results) :
        /\ InUnitInterval(results[i].self_sufficiency)
        /\ results[i].load_kwh = Zero => results[i].self_sufficiency = One

\* C4: with the grid up in a winter month, a battery at or above winter_min_soc *
\* capacity_kwh when step 3 begins is still at or above it right after the step-3 discharge.
C4_ReserveEnforcement ==
    (/\ call.op = "simulate_timestep"
     /\ call.grid_stable
     /\ call.current_month \in config.reserve.winter_months
     /\ RGe(call.steps.energy_after_charge,
            RMul(config.reserve.winter_min_soc, battery.capacity_kwh)))
    => RGe(call.steps.energy_after_discharge,
           RMul(config.reserve.winter_min_soc, battery.capacity_kwh))

\* C5: in every result row unmet_load >= 0.
C5_UnmetLoadNonNegative ==
    \A i \in 1..Len(results) : RGe(results[i].unmet_load, Zero)

\* C6: charge(x) never decreases energy_kwh, discharge(x) never increases it, and the
\* amount returned is >= 0 and, when x >= 0, <= x.
C6_Monotonicity ==
    /\ call.op = "charge" => RGe(battery.energy_kwh, call.before)
    /\ call.op = "discharge" => RLe(battery.energy_kwh, call.before)
    /\ call.op \in {"charge", "discharge"} =>
           /\ RGe(call.ret, Zero)
           /\ RGe(call.requested, Zero) => RLe(call.ret, call.requested)

\* C7: charge(requested) accepts max(0, min(requested, (capacity_kwh - energy_kwh) /
\* efficiency)), stores that amount times efficiency and returns it; a request <= 0 returns 0
\* and changes nothing, a request at or above the headroom leaves the battery full.
C7_Charge ==
    call.op = "charge" =>
        LET headroom == RDiv(RSub(battery.capacity_kwh, call.before), battery.efficiency)
            actual == RMax(Zero, RMin(call.requested, headroom))
        IN  /\ call.ret = actual
            /\ battery.energy_kwh = RAdd(call.before, RMul(actual, battery.efficiency))
            /\ RLe(call.requested, Zero) =>
                   call.ret = Zero /\ battery.energy_kwh = call.before
            /\ RGe(call.requested, headroom) => battery.energy_kwh = battery.capacity_kwh

C9_OneToOne ==
    run.called =>
        /\ Len(run.returned) = Len(run.data)
        /\ Len(run.trace) = Len(run.data)
        /\ results = run.returned
        /\ \A i \in 1..Len(run.data) :
               /\ i <= Len(run.returned) =>
                      /\ run.returned[i].load_kwh
                             = RMul(run.data[i].load_kw, run.timestep_hours)
                      /\ run.returned[i].grid_stable = run.data[i].grid_stable
                      /\ run.returned[i].pv_generation_kwh
                             = RMul(GeneratePower(config.peak_power_kw,
                                                  run.data[i].irradiation_w_m2),
                                    run.timestep_hours)
               /\ i <= Len(run.trace) => run.trace[i].idx = i - 1

\* a run over two different rows, on an EnergySystem that already held a result
C9_Witness ==
    /\ run.called
    /\ run.results_before # <<>>
    /\ Len(run.data) = 2
    /\ Len(run.returned) = 2
    /\ run.data[1] # run.data[2]
    /\ run.timestep_hours = Num(2)

\* the floor the claims speak of, for the step just made
WinterFloor == RMul(config.reserve.winter_min_soc, battery.capacity_kwh)
OutageFloor == RMul(config.reserve.outage_min_soc, battery.capacity_kwh)

\* C11: the floor of a timestep is outage_min_soc * capacity_kwh when grid_stable is false
\* (also in a winter month), else winter_min_soc * capacity_kwh when current_month is in
\* winter_months, else 0.
C11_ReservePolicy ==
    call.op = "simulate_timestep" =>
        call.steps.min_battery_energy
            = IF ~call.grid_stable THEN OutageFloor
              ELSE IF call.current_month \in config.reserve.winter_months THEN WinterFloor
              ELSE Zero

\* an outage in a winter month, outage floor below the winter floor, in which the battery
\* was drawn below the winter floor
C11_Witness ==
    /\ call.op = "simulate_timestep"
    /\ ~call.grid_stable
    /\ call.current_month \in config.reserve.winter_months
    /\ RLt(OutageFloor, WinterFloor)
    /\ call.steps.min_battery_energy = OutageFloor
    /\ RGe(call.steps.energy_after_charge, WinterFloor)
    /\ RLt(call.steps.energy_after_discharge, WinterFloor)

\* C12: a battery at or below the floor when step 3 begins is not discharged
\* (battery_to_load = 0, energy_kwh unchanged by step 3); with the grid down, no irradiance,
\* load_kw > 0 and the battery exactly at outage_min_soc * capacity_kwh, unmet_load =
\* load_kw * timestep_hours.
C12_NoDischargeAtFloor ==
    call.op = "simulate_timestep" =>
        /\ RLe(call.steps.energy_after_charge, call.steps.min_battery_energy) =>
               /\ call.ret.battery_to_load = Zero
               /\ call.steps.energy_after_discharge = call.steps.energy_after_charge
        /\ (/\ ~call.grid_stable
            /\ call.irradiation_w_m2 = Zero
            /\ RGt(call.load_kw, Zero)
            /\ call.steps.energy_at_start = OutageFloor)
           => call.ret.unmet_load = RMul(call.load_kw, call.timestep_hours)

\* an outage without sun, load to serve, and the battery exactly at a positive outage floor
C12_Witness ==
    /\ call.op = "simulate_timestep"
    /\ ~call.grid_stable
    /\ call.irradiation_w_m2 = Zero
    /\ RGt(call.load_kw, Zero)
    /\ call.steps.discharges
    /\ RGt(OutageFloor, Zero)
    /\ call.steps.energy_at_start = OutageFloor
    /\ call.ret.unmet_load = RMul(call.load_kw, call.timestep_hours)

\* C14: pv_to_load = min(pv_generation_kwh, load_kwh); when PV >= load, battery_to_load = 0,
\* grid_import = 0, unmet_load = 0 and self_sufficiency = 1; when PV < load, pv_to_load =
\* pv_generation_kwh and pv_to_battery = pv_to_grid = 0.
C14_PvFeedsLoadFirst ==
    \A i \in 1..Len(results) :
        LET r == results[i]
        IN  /\ r.pv_to_load = RMin(r.pv_generation_kwh, r.load_kwh)
            /\ RGe(r.pv_generation_kwh, r.load_kwh) =>
                   /\ r.battery_to_load = Zero
                   /\ r.grid_import = Zero
                   /\ r.unmet_load = Zero
                   /\ r.self_sufficiency = One
            /\ RLt(r.pv_generation_kwh, r.load_kwh) =>
                   /\ r.pv_to_load = r.pv_generation_kwh
                   /\ r.pv_to_battery = Zero
                   /\ r.pv_to_grid = Zero

\* a step whose PV exceeded a positive load, after a step whose PV fell short of the load
C14_Witness ==
    /\ Len(results) = 2
    /\ RGt(results[1].pv_generation_kwh, Zero)
    /\ RLt(results[1].pv_generation_kwh, results[1].load_kwh)
    /\ RGt(results[2].load_kwh, Zero)
    /\ RGt(results[2].pv_generation_kwh, results[2].load_kwh)
    /\ RGt(results[2].pv_to_battery, Zero)

C20_ExactPartialDischarge ==
    (call.op = "simulate_timestep" /\ call.steps.discharges) =>
        LET floor == call.steps.min_battery_energy
            before == call.steps.energy_after_charge
            deliverable == RMul(RMax(Zero, RSub(before, floor)), battery.efficiency)
        IN  /\ RLt(deliverable, call.steps.remaining_load) =>
                   /\ call.ret.battery_to_load = deliverable
                   /\ RGt(before, floor) => call.steps.energy_after_discharge = floor
            /\ RGe(deliverable, call.steps.remaining_load) =>
                   call.ret.battery_to_load = call.steps.remaining_load

\* rows a..b (indices from 0) of a table are a maximal run of rows with unmet_load > 0
IsMaximalRun(results_table, a, b) ==
    LET n == Len(results_table)
        unmet(i) == RGt(results_table[i + 1].unmet_load, Zero)
    IN  /\ 0 <= a /\ a <= b /\ b <= n - 1
        /\ \A i \in a..b : unmet(i)
        /\ a = 0 \/ ~unmet(a - 1)
        /\ b = n - 1 \/ ~unmet(b + 1)

UnmetIndices(results_table) ==
    { i \in 0..(Len(results_table) - 1) : RGt(results_table[i + 1].unmet_load, Zero) }

\* C13: the blackout events are exactly the maximal contiguous runs of rows with
\* unmet_load > 0, one event per run and in order, with start_index and end_index the first
\* and last index of the run and duration_hours = end_index - start_index + 1; a run open at
\* the last row ends at N - 1; unmet load at the indices 5, 6, 7 and 20 only gives the events
\* (5, 7, 3) and (20, 20, 1), and a table without unmet load gives none.
C13_BlackoutRuns ==
    report.extractions > 0 =>
        LET t == report.before
            ev == report.blackout_events
        IN  /\ \A k \in 1..Len(ev) :
                   /\ IsMaximalRun(t, ev[k].start_index, ev[k].end_index)
                   /\ ev[k].duration_hours = ev[k].end_index - ev[k].start_index + 1
                   /\ ev[k].event_id = k
            /\ \A k \in 1..(Len(ev) - 1) : ev[k].end_index < ev[k + 1].start_index
            /\ \A a \in 0..(Len(t) - 1) : \A b \in a..(Len(t) - 1) :
                   IsMaximalRun(t, a, b) =>
                       \E k \in 1..Len(ev) : ev[k].start_index = a /\ ev[k].end_index = b
            /\ UnmetIndices(t) = {} => ev = <<>>
            /\ UnmetIndices(t) = {5, 6, 7, 20} =>
                   /\ Len(ev) = 2
                   /\ ev[1].start_index = 5 /\ ev[1].end_index = 7 /\ ev[1].duration_hours = 3
                   /\ ev[2].start_index = 20 /\ ev[2].end_index = 20 /\ ev[2].duration_hours = 1

\* the example table: two events, the second one still open at the last row
C13_Witness ==
    /\ report.extractions = 1
    /\ UnmetIndices(report.before) = {5, 6, 7, 20}
    /\ Len(report.before) = 21
    /\ Len(report.blackout_events) = 2
    /\ report.blackout_events[2].end_index = Len(report.before) - 1

\* C19 as stated: detecting the blackout events leaves every row, every field and the set of
\* fields of the result table unchanged, and detecting again returns the same events.
C19_ReadOnlyExtraction ==
    report.extractions > 0 =>
        /\ report.results = report.before
        /\ report.extractions > 1 => report.blackout_events = report.previous

\* C19: detecting the blackout events adds one boolean field, blackout (unmet_load > 0), to
\* every row of the result table and changes nothing else (row count, order and every other
\* field stay); detecting again leaves the table as the first detection left it and returns the
\* same events.
C19_ExtractionAddsBlackoutColumn ==
    report.extractions > 0 =>
        /\ Len(report.results) = Len(report.before)
        /\ \A i \in 1..Len(report.before) :
               /\ DOMAIN report.results[i] = DOMAIN report.before[i] \cup {"blackout"}
               /\ report.results[i].blackout = RGt(report.before[i].unmet_load, Zero)
               /\ \A f \in DOMAIN report.before[i] \ {"blackout"} :
                      report.results[i][f] = report.before[i][f]
        /\ report.extractions > 1 =>
               /\ report.results = report.before
               /\ report.blackout_events = report.previous

\* a table with a row of negative unmet_load and with blackout events, detected twice
C19_Witness ==
    /\ report.extractions = 2
    /\ report.blackout_events # <<>>
    /\ \E i \in 1..Len(report.results) : RLt(report.results[i].unmet_load, Zero)
    /\ \A i \in 1..Len(report.results) : "blackout" \in DOMAIN report.results[i]
    /\ report.blackout_events = report.previous

\* the ranges the constructors document for their arguments
ValidConfiguration ==
    /\ RGt(battery.capacity_kwh, Zero)
    /\ RGt(battery.efficiency, Zero) /\ RLe(battery.efficiency, One)
    /\ RGe(battery.self_discharge_rate, Zero)
    /\ InUnitInterval(config.reserve.winter_min_soc)
    /\ InUnitInterval(config.reserve.outage_min_soc)

\* C15: a Battery / EnergySystem with capacity_kwh <= 0, efficiency outside (0, 1],
\* self_discharge_rate < 0, or winter_min_soc / outage_min_soc outside [0, 1] is rejected at
\* construction: no simulation step runs on such a configuration.
C15_InvalidConfigurationRejected ==
    call.op = "simulate_timestep" => ValidConfiguration

HasNegativeRow(data) ==
    \E i \in 1..Len(data) :
        RLt(data[i].irradiation_w_m2, Zero) \/ RLt(data[i].load_kw, Zero)

\* C16: simulate() on a table with a row of negative irradiance or negative load fails before
\* any result row is produced: no step is taken, no row is returned, and the results of the
\* system are not advanced.
C16_NegativeInputAborts ==
    (run.called /\ HasNegativeRow(run.data)) =>
        /\ run.trace = <<>>
        /\ run.returned = <<>>
        /\ results = run.results_before

MismatchedLengths ==
    Len(call.irradiation) # Len(call.load) \/ Len(call.irradiation) # Len(call.grid)

C21_GridUpServesLoad ==
    \A i \in 1..Len(results) :
        LET r == results[i]
        IN  /\ r.grid_stable =>
                   /\ r.unmet_load = Zero
                   /\ r.grid_to_load = RSub(RSub(r.load_kwh, r.pv_to_load), r.battery_to_load)
            /\ r.unmet_load # Zero => ~r.grid_stable

\* C22: in every timestep with grid_stable false, grid_to_load, grid_import, pv_to_grid,
\* grid_export and net_grid are all 0, and the PV that neither load nor battery took is in
\* no flow (it is what is left of remaining_pv at the end of the step).
C22_NoGridFlowInOutage ==
    (call.op = "simulate_timestep" /\ ~call.grid_stable) =>
        /\ call.ret.grid_to_load = Zero
        /\ call.ret.grid_import = Zero
        /\ call.ret.pv_to_grid = Zero
        /\ call.ret.grid_export = Zero
        /\ call.ret.net_grid = Zero
        /\ call.steps.remaining_pv_at_end
               = RSub(RSub(call.ret.pv_generation_kwh, call.ret.pv_to_load),
                      call.ret.pv_to_battery)
        /\ RGe(call.steps.remaining_pv_at_end, Zero)

\* an outage in which PV exceeded what the load and the battery could take
C22_Witness ==
    /\ call.op = "simulate_timestep"
    /\ ~call.grid_stable
    /\ RGt(call.ret.pv_to_battery, Zero)
    /\ RGt(call.steps.remaining_pv_at_end, Zero)
    /\ call.ret.pv_to_grid = Zero

\* C23: with grid_stable true, pv_to_load + pv_to_battery + pv_to_grid = pv_generation_kwh;
\* with grid_stable false the sum is <= pv_generation_kwh; pv_to_battery is the amount taken
\* from the surplus PV (the battery gains pv_to_battery * efficiency).
C23_PvAccounting ==
    call.op = "simulate_timestep" =>
        LET r == call.ret
            pv_used == RAdd(RAdd(r.pv_to_load, r.pv_to_battery), r.pv_to_grid)
        IN  /\ r.grid_stable => pv_used = r.pv_generation_kwh
            /\ ~r.grid_stable => RLe(pv_used, r.pv_generation_kwh)
            /\ RSub(call.steps.energy_after_charge, call.steps.energy_at_start)
                   = RMul(r.pv_to_battery, battery.efficiency)

\* PV that fed the load and then a lossy battery, which stored less than it took
C23_Witness ==
    /\ call.op = "simulate_timestep"
    /\ call.grid_stable
    /\ RLt(battery.efficiency, One)
    /\ RGt(call.ret.pv_to_load, Zero)
    /\ RGt(call.ret.pv_to_battery, Zero)
    /\ RLt(RSub(call.steps.energy_after_charge, call.steps.energy_at_start),
           call.ret.pv_to_battery)

\* C24: whenever PV is left after the load and the battery is below capacity_kwh,
\* pv_to_battery > 0; and pv_to_grid > 0 only in a timestep whose battery is exactly at
\* capacity_kwh after the step-2 charge.
C24_ChargeBeforeExport ==
    call.op = "simulate_timestep" =>
        /\ (/\ RGt(call.steps.remaining_pv, Zero)
            /\ RLt(call.steps.energy_at_start, battery.capacity_kwh))
           => RGt(call.ret.pv_to_battery, Zero)
        /\ RGt(call.ret.pv_to_grid, Zero) =>
               call.steps.energy_after_charge = battery.capacity_kwh

\* a lossy battery filled from below capacity, and the rest of the PV exported
C24_Witness ==
    /\ call.op = "simulate_timestep"
    /\ RLt(battery.efficiency, One)
    /\ RLt(call.steps.energy_at_start, battery.capacity_kwh)
    /\ call.steps.energy_after_charge = battery.capacity_kwh
    /\ RGt(call.ret.pv_to_grid, Zero)

\* C25: whenever load is left after PV and the battery holds energy above the floor,
\* battery_to_load > 0; and grid_to_load > 0 only in a timestep whose battery, after the
\* step-3 discharge, is at or below the floor.
C25_BatteryBeforeGrid ==
    call.op = "simulate_timestep" =>
        /\ (/\ RGt(call.steps.remaining_load, Zero)
            /\ RGt(call.steps.energy_after_charge, call.steps.min_battery_energy))
           => RGt(call.ret.battery_to_load, Zero)
        /\ RGt(call.ret.grid_to_load, Zero) =>
               RLe(call.steps.energy_after_discharge, call.steps.min_battery_energy)

\* a battery above a positive floor that served part of the load, the grid the rest
C25_Witness ==
    /\ call.op = "simulate_timestep"
    /\ RGt(call.steps.min_battery_energy, Zero)
    /\ RGt(call.steps.energy_after_charge, call.steps.min_battery_energy)
    /\ RGt(call.ret.battery_to_load, Zero)
    /\ RGt(call.ret.grid_to_load, Zero)

C29_NoOpposingFlows ==
    /\ call.op = "simulate_timestep" =>
           ~(RGt(call.steps.remaining_pv, Zero) /\ RGt(call.steps.remaining_load, Zero))
    /\ \A i \in 1..Len(results) :
           LET r == results[i]
           IN  /\ RGt(r.pv_to_battery, Zero) =>
                      r.battery_to_load = Zero /\ r.grid_to_load = Zero
               /\ RGt(r.grid_import, Zero) => r.grid_export = Zero

\* a step that charged and exported, then a step that discharged and imported
C29_Witness ==
    /\ Len(results) = 2
    /\ RGt(results[1].pv_to_battery, Zero) /\ RGt(results[1].grid_export, Zero)
    /\ RGt(results[2].battery_to_load, Zero) /\ RGt(results[2].grid_import, Zero)

\* C27: within one simulate() call the battery energy at the start of row i+1 is the
\* battery_energy_kwh reported in result row i, and the battery is left with the energy
\* reported in the last row: nothing else changes the battery.
C27_BatteryThreaded ==
    (run.called /\ run.data # <<>>) =>
        /\ Len(run.trace) = Len(run.returned)
        /\ \A i \in 1..(Len(run.trace) - 1) :
               run.trace[i + 1].steps.energy_at_start = run.returned[i].battery_energy_kwh
        /\ battery.energy_kwh = run.returned[Len(run.returned)].battery_energy_kwh

\* a run of two rows whose second row started from another energy than the first
C27_Witness ==
    /\ run.called
    /\ Len(run.trace) = 2
    /\ run.trace[2].steps.energy_at_start # run.trace[1].steps.energy_at_start
    /\ run.trace[2].steps.energy_at_start = run.returned[1].battery_energy_kwh

InitialEnergy == RMul(Rat(1, 2), battery.capacity_kwh)

\* C28 as stated: the first timestep of every simulate() call begins from initial_soc *
\* capacity_kwh (SOC 0.5), also in a second simulate() call on the same EnergySystem.
C28_EveryRunFromInitialSoc ==
    (run.called /\ calls = 0 /\ run.data # <<>>) =>
        run.trace[1].steps.energy_at_start = InitialEnergy

\* C28: a Battery is constructed with energy_kwh = initial_soc * capacity_kwh (SOC 0.5 in an
\* EnergySystem) and the first simulate() call on a new EnergySystem begins from that energy;
\* simulate() does not reset the battery, so every simulate() call begins from the energy the
\* battery holds when it is called, a second call from what the first call left.
C28_RunFromCurrentEnergy ==
    /\ []((~run.called /\ calls = 0) => battery.energy_kwh = InitialEnergy)
    /\ []((run.called /\ calls = 0 /\ run.rows = Len(run.data) /\ run.data # <<>>) =>
              run.trace[1].steps.energy_at_start = InitialEnergy)
    /\ [][(call'.op = "simulate" /\ run'.data # <<>>) =>
              run'.trace[1].steps.energy_at_start = battery.energy_kwh]_vars

\* a second simulate() call on the same system that began from what the first call left
C28_Witness ==
    /\ run.called
    /\ calls = 0
    /\ run.data # <<>>
    /\ run.rows > Len(run.data)
    /\ run.trace[1].steps.energy_at_start # InitialEnergy

\* total of duration_hours over the first k events
RECURSIVE TotalDuration(_, _)
TotalDuration(events, k) ==
    IF k = 0 THEN 0 ELSE TotalDuration(events, k - 1) + events[k].duration_hours

\* unmet_load added up over the rows a..b (indices from 0), last row first
RECURSIVE UnmetOver(_, _, _)
UnmetOver(results_table, a, b) ==
    IF b < a THEN Zero
    ELSE RAdd(UnmetOver(results_table, a, b - 1), results_table[b + 1].unmet_load)

\* C30: the events are in increasing start_index order with event_id 1..n and start_index <=
\* end_index; consecutive events are separated by a timestep with unmet_load <= 0
\* (end_index[k] + 1 < start_index[k+1]); every timestep with unmet_load > 0 lies in exactly
\* one event; the durations add up to the number of such timesteps; unserved_energy_kwh of an
\* event is the sum of unmet_load over its rows.
C30_EventsPartitionBlackouts ==
    report.extractions > 0 =>
        LET t == report.before
            ev == report.blackout_events
            covers(k, i) == ev[k].start_index <= i /\ i <= ev[k].end_index
        IN  /\ \A k \in 1..Len(ev) :
                   /\ ev[k].event_id = k
                   /\ ev[k].start_index <= ev[k].end_index
                   /\ ev[k].unserved_energy_kwh
                          = UnmetOver(t, ev[k].start_index, ev[k].end_index)
            /\ \A k \in 1..(Len(ev) - 1) :
                   /\ ev[k].start_index < ev[k + 1].start_index
                   /\ ev[k].end_index + 1 < ev[k + 1].start_index
                   /\ ev[k].end_index + 1 \notin UnmetIndices(t)
            /\ \A i \in UnmetIndices(t) :
                   Cardinality({ k \in 1..Len(ev) : covers(k, i) }) = 1
            /\ TotalDuration(ev, Len(ev)) = Cardinality(UnmetIndices(t))

\* two events, the first of two rows with different unmet_load, one served row between them
C30_Witness ==
    /\ report.extractions = 1
    /\ Len(report.blackout_events) = 2
    /\ report.blackout_events[1].duration_hours = 2
    /\ report.blackout_events[1].unserved_energy_kwh = Num(8)
    /\ report.blackout_events[2].start_index = report.blackout_events[1].end_index + 2

=============================================================================
